---- MODULE Spec2Model ----
(***************************************************************************)
(* Authorization resolution of slack_bolt:                                 *)
(*   AsyncInstallationStoreAuthorize.__call__  ("resolve")                 *)
(*   AsyncInstallationStoreAuthorize._rotate_and_save_tokens_if_necessary  *)
(*   AsyncCallableAuthorize.__call__                                       *)
(* and the OAuth state store of slack_sdk:                                 *)
(*   AmazonS3OAuthStateStore.issue, AmazonS3OAuthStateStore.consume        *)
(* One resolver instance, its installation store, its token rotator and    *)
(* the auth.test verifier.  In Spec a resolve call is one atomic step;     *)
(* what the call did is recorded in the variable last.  SpecCallable runs  *)
(* the adapter of a caller-supplied authorize function, SpecStateStore     *)
(* the state store with concurrent consumers, and SpecTasks concurrent     *)
(* resolve calls of a bot-only resolver, one step per await.               *)
(***************************************************************************)
EXTENDS Integers, Sequences, FiniteSets, TLC

(* ------------------------------ bounds --------------------------------- *)

\* Tokens stop expiring once this many rotations have happened or are due.
MaxRotations == 1

\* The states that issue() hands out.
MaxStates == 2

\* The time that passes, in seconds.
MaxClock == 3

(* ------------------------------ values --------------------------------- *)

Teams == {"T1"}
Installers == {"U1", "U2"}
NoUser == "None"
Requesters == Installers \cup {NoUser}

\* A token is <<prefix, holder, serial>>; None is the empty tuple.
NoToken == << >>

Tok(prefix, holder, serial) == <<prefix, holder, serial>>

NoInstallation ==
    [team_id |-> "None", user_id |-> NoUser,
     bot_token |-> NoToken, bot_refresh_token |-> NoToken, bot_expiring |-> FALSE,
     user_token |-> NoToken, user_refresh_token |-> NoToken, user_expiring |-> FALSE,
     user_scopes |-> {}]

NoBot ==
    [team_id |-> "None",
     bot_token |-> NoToken, bot_refresh_token |-> NoToken, bot_expiring |-> FALSE]

NoResult == [bot_token |-> NoToken, user_token |-> NoToken]

\* An installation of team by user, holding the given kinds of token; with
\* rotation every token held comes with a refresh credential.
NewInstallation(team, user, hasBot, hasUser, rotation) ==
    [team_id |-> team, user_id |-> user,
     bot_token |-> IF hasBot THEN Tok("xoxb", user, 0) ELSE NoToken,
     bot_refresh_token |-> IF hasBot /\ rotation THEN Tok("xoxe-b", user, 0) ELSE NoToken,
     bot_expiring |-> FALSE,
     user_token |-> IF hasUser THEN Tok("xoxp", user, 0) ELSE NoToken,
     user_refresh_token |-> IF hasUser /\ rotation THEN Tok("xoxe-p", user, 0) ELSE NoToken,
     user_expiring |-> FALSE,
     user_scopes |-> IF hasUser THEN {"search:read"} ELSE {}]

NewBot(team, rotation) ==
    [team_id |-> team,
     bot_token |-> Tok("xoxb", "bot", 0),
     bot_refresh_token |-> IF rotation THEN Tok("xoxe-b", "bot", 0) ELSE NoToken,
     bot_expiring |-> FALSE]

(* ------------------------------- state --------------------------------- *)

VARIABLES
    bot_only,                     \* configuration
    cache_enabled,                \* configuration
    token_rotator,                \* TRUE iff client_id and client_secret were given
    find_installation_available,  \* "None" | "True" | "False"
    find_bot_available,           \* "None" | "True" | "False"
    authorize_result_cache,       \* token -> AuthorizeResult
    storeFindInstallation,        \* "absent" | "unimplemented" | "implemented"
    storeFindBot,                 \* "absent" | "unimplemented" | "implemented"
    installations,                \* team -> installer -> installation record
    latestInstaller,              \* team -> installer of the latest installation
    bots,                         \* team -> bot record
    accepted,                     \* tokens the verifier has accepted so far
    notImplementedSeen,           \* find_installation has raised NotImplementedError
    last,                         \* what the last resolve call did
    callable_call,                \* what the last call of AsyncCallableAuthorize did
    s3_objects,                   \* the bucket of the state store: key -> body
    clock,                        \* time.time()
    expiration_seconds,           \* configuration of the state store
    issued_states,                \* how many states issue() has handed out
    consume_calls,                \* consumer -> the consume() call it is in
    consume_accepted,             \* state -> how many consume() calls returned True
    tasks,                        \* task -> the concurrent resolve call it is in
    exchange_log                  \* the exchanges the authorization server has served

resolverVars ==
    <<bot_only, cache_enabled, token_rotator, find_installation_available,
      find_bot_available, authorize_result_cache, storeFindInstallation,
      storeFindBot, installations, latestInstaller, bots, accepted,
      notImplementedSeen, last>>

callableVars == <<callable_call>>

stateStoreVars ==
    <<s3_objects, clock, expiration_seconds, issued_states, consume_calls,
      consume_accepted>>

taskVars == <<tasks, exchange_log>>

vars == <<resolverVars, callableVars, stateStoreVars, taskVars>>

config == <<bot_only, cache_enabled, token_rotator, storeFindInstallation, storeFindBot>>

(* ------------------- the installation store (interface) ---------------- *)

\* The part of the world a resolve call reads and writes while it runs.
Env(insts, bs) ==
    [installations |-> insts, bots |-> bs, exchanges |-> << >>, saves |-> << >>,
     events |-> << >>]

LatestInstallation(env, team) ==
    IF latestInstaller[team] = NoUser
    THEN NoInstallation
    ELSE env.installations[team][latestInstaller[team]]

\* async_find_installation(team_id, user_id): without a user the latest
\* installation of the team, with a user that user's own installation.
AsyncFindInstallation(env, team, user) ==
    IF user = NoUser
    THEN LatestInstallation(env, team)
    ELSE env.installations[team][user]

\* async_find_bot(team_id)
AsyncFindBot(env, team) == env.bots[team]

\* async_save(installation)
AsyncSave(env, installation) ==
    [env EXCEPT
       !.installations[installation.team_id][installation.user_id] = installation,
       !.saves = Append(@, <<"installation", installation.team_id, installation.user_id>>),
       !.events = Append(@, "async_save")]

\* async_save_bot(bot)
AsyncSaveBot(env, bot) ==
    [env EXCEPT
       !.bots[bot.team_id] = bot,
       !.saves = Append(@, <<"bot", bot.team_id>>),
       !.events = Append(@, "async_save_bot")]

(* ----------------------- the token rotator (interface) ----------------- *)

\* The token of the given prefix that the authorization server issues in
\* exchange for a refresh credential: the next one of the same holder.
Exchange(prefix, refresh_token) ==
    Tok(prefix, refresh_token[2], refresh_token[3] + 1)

BotNeedsRotation(record) ==
    record.bot_refresh_token # NoToken /\ record.bot_expiring

UserNeedsRotation(record) ==
    record.user_refresh_token # NoToken /\ record.user_expiring

\* perform_bot_token_rotation: none unless the bot token expires within the
\* threshold, else a copy of the record with a new access/refresh pair.
PerformBotTokenRotation(bot) ==
    IF ~BotNeedsRotation(bot)
    THEN NoBot
    ELSE [bot EXCEPT
            !.bot_token = Exchange("xoxb", bot.bot_refresh_token),
            !.bot_refresh_token = Exchange("xoxe-b", bot.bot_refresh_token),
            !.bot_expiring = FALSE]

\* perform_token_rotation: the bot side and the user side are exchanged
\* independently; none when neither side was exchanged.
PerformTokenRotation(installation) ==
    IF ~BotNeedsRotation(installation) /\ ~UserNeedsRotation(installation)
    THEN NoInstallation
    ELSE LET b == IF BotNeedsRotation(installation)
                  THEN [installation EXCEPT
                          !.bot_token = Exchange("xoxb", installation.bot_refresh_token),
                          !.bot_refresh_token = Exchange("xoxe-b", installation.bot_refresh_token),
                          !.bot_expiring = FALSE]
                  ELSE installation
         IN  IF UserNeedsRotation(installation)
             THEN [b EXCEPT
                     !.user_token = Exchange("xoxp", installation.user_refresh_token),
                     !.user_refresh_token = Exchange("xoxe-p", installation.user_refresh_token),
                     !.user_expiring = FALSE]
             ELSE b

\* The refresh credentials a rotation of the record hands to the
\* authorization server.
ExchangedCredentials(record, withUser) ==
    (IF BotNeedsRotation(record) THEN <<record.bot_refresh_token>> ELSE << >>)
    \o (IF withUser /\ UserNeedsRotation(record)
        THEN <<record.user_refresh_token>> ELSE << >>)

(* ------------------ _rotate_and_save_tokens_if_necessary --------------- *)

NoRotation(env) == [env |-> env, refreshed |-> NoInstallation, raised |-> FALSE]

\* Mutant: the missing rotator is reported before the record is looked at.
RotateAndSaveRotatorFirst(env, installation) ==
    IF ~token_rotator
    THEN [env |-> env, refreshed |-> NoInstallation, raised |-> TRUE]
    ELSE IF \/ installation = NoInstallation
            \/ /\ installation.user_refresh_token = NoToken
               /\ installation.bot_refresh_token = NoToken
    THEN NoRotation(env)
    ELSE LET refreshed == PerformTokenRotation(installation)
         IN  IF refreshed = NoInstallation
             THEN NoRotation(env)
             ELSE [env |-> AsyncSave(
                             [env EXCEPT
                                !.exchanges = @ \o ExchangedCredentials(installation, TRUE),
                                !.events = Append(@, "perform_token_rotation")],
                             refreshed),
                   refreshed |-> refreshed,
                   raised |-> FALSE]

RotateAndSaveTokensIfNecessary(env, installation) ==
    IF \/ installation = NoInstallation
       \/ /\ installation.user_refresh_token = NoToken
          /\ installation.bot_refresh_token = NoToken
    THEN NoRotation(env)
    ELSE IF ~token_rotator
    THEN [env |-> env, refreshed |-> NoInstallation, raised |-> TRUE]
    ELSE LET refreshed == PerformTokenRotation(installation)
         IN  IF refreshed = NoInstallation
             THEN NoRotation(env)
             ELSE [env |-> AsyncSave(
                             [env EXCEPT
                                !.exchanges = @ \o ExchangedCredentials(installation, TRUE),
                                !.events = Append(@, "perform_token_rotation")],
                             refreshed),
                   refreshed |-> refreshed,
                   raised |-> FALSE]

(* --------------------------- resolve: the steps ------------------------ *)

\* Mutant: the flag is probed again whenever it is not "True".
ProbeAvailableUnlessTrue(flag, storeOperation) ==
    IF flag # "True"
    THEN (IF storeOperation = "absent" THEN "False" ELSE "True")
    ELSE flag

\* hasattr(installation_store, ...) the first time, the memoized flag after.
ProbeAvailable(flag, storeOperation) ==
    IF flag = "None"
    THEN (IF storeOperation = "absent" THEN "False" ELSE "True")
    ELSE flag

\* Mutant: bot-only mode is not looked at.
UseInstallationPathIgnoringBotOnly(botOnly, findInstallationAvailable) ==
    findInstallationAvailable = "True"

\* not bot_only and find_installation_available
UseInstallationPath(botOnly, findInstallationAvailable) ==
    ~botOnly /\ findInstallationAvailable = "True"

\* bot_token, user_token = latest_installation.bot_token, .user_token
TentativeTokens(latest_installation) ==
    [bot_token |-> latest_installation.bot_token,
     user_token |-> latest_installation.user_token]

\* The installer is a different user: the record loses its user token and
\* user scopes; the local user_token is left as it was.
RemoveInstallerUserToken(latest_installation) ==
    [latest_installation EXCEPT !.user_token = NoToken, !.user_scopes = {}]

\* Mutant: the request user's installation always supplies the bot token.
ThisUserTokensOverwriting(latest_installation, this_user_installation, tokens) ==
    IF this_user_installation = NoInstallation
    THEN tokens
    ELSE [bot_token |-> this_user_installation.bot_token,
          user_token |-> this_user_installation.user_token]

\* Tokens after the request user's own installation has been looked up.
ThisUserTokens(latest_installation, this_user_installation, tokens) ==
    IF this_user_installation = NoInstallation
    THEN tokens
    ELSE [bot_token |-> IF latest_installation.bot_token = NoToken
                        THEN this_user_installation.bot_token
                        ELSE tokens.bot_token,
          user_token |-> this_user_installation.user_token]

\* Tokens after the rotation of the request user's own installation.
RefreshedThisUserTokens(latest_installation, refreshed, tokens) ==
    IF refreshed = NoInstallation
    THEN tokens
    ELSE [bot_token |-> IF latest_installation.bot_token = NoToken
                        THEN refreshed.bot_token
                        ELSE tokens.bot_token,
          user_token |-> refreshed.user_token]

\* Tokens after the rotation of the latest installation.
RefreshedLatestTokens(this_user_installation, refreshed, tokens) ==
    IF refreshed = NoInstallation
    THEN tokens
    ELSE [bot_token |-> refreshed.bot_token,
          user_token |-> IF this_user_installation = NoInstallation
                         THEN refreshed.user_token
                         ELSE tokens.user_token]

\* What the installation path leaves behind when it finds nothing.
InstallationPathSkipped(env) ==
    [env |-> env, tokens |-> NoResult, raised |-> "no",
     findInstallationCalls |-> << >>,
     found |-> NoInstallation, this_user_installation |-> NoInstallation,
     refreshedThisUser |-> NoInstallation, refreshedLatest |-> NoInstallation]

\* The try block of the installation path.  raised is "no",
\* "NotImplementedError" (caught by resolve) or "BoltError" (propagated).
InstallationPath(env, team, user) ==
    IF storeFindInstallation # "implemented"
    THEN [InstallationPathSkipped(env) EXCEPT
            !.raised = "NotImplementedError",
            !.findInstallationCalls = <<NoUser>>]
    ELSE
    LET found == AsyncFindInstallation(env, team, NoUser)
    IN  IF found = NoInstallation
        THEN [InstallationPathSkipped(env) EXCEPT !.findInstallationCalls = <<NoUser>>]
        ELSE
        LET differs == found.user_id # user
            latest_installation ==
                IF differs THEN RemoveInstallerUserToken(found) ELSE found
            this_user_installation ==
                IF differs THEN AsyncFindInstallation(env, team, user) ELSE NoInstallation
            t1 == ThisUserTokens(latest_installation, this_user_installation,
                                 TentativeTokens(found))
            r1 == RotateAndSaveTokensIfNecessary(env, this_user_installation)
            t2 == RefreshedThisUserTokens(latest_installation, r1.refreshed, t1)
            r2 == RotateAndSaveTokensIfNecessary(r1.env, latest_installation)
            t3 == RefreshedLatestTokens(this_user_installation, r2.refreshed, t2)
            calls == IF differs THEN <<NoUser, user>> ELSE <<NoUser>>
        IN  IF r1.raised
            THEN [env |-> r1.env, tokens |-> t1, raised |-> "BoltError",
                  findInstallationCalls |-> calls,
                  found |-> found, this_user_installation |-> this_user_installation,
                  refreshedThisUser |-> NoInstallation, refreshedLatest |-> NoInstallation]
            ELSE IF r2.raised
            THEN [env |-> r2.env, tokens |-> t2, raised |-> "BoltError",
                  findInstallationCalls |-> calls,
                  found |-> found, this_user_installation |-> this_user_installation,
                  refreshedThisUser |-> r1.refreshed, refreshedLatest |-> NoInstallation]
            ELSE [env |-> r2.env, tokens |-> t3, raised |-> "no",
                  findInstallationCalls |-> calls,
                  found |-> found, this_user_installation |-> this_user_installation,
                  refreshedThisUser |-> r1.refreshed, refreshedLatest |-> r2.refreshed]

\* Mutant: find_bot is tried in bot-only mode alone.
UseBotPathInBotOnlyMode(botOnly, findInstallationAvailable, findBotAvailable, tokens) ==
    botOnly

\* The condition under which find_bot is tried.
UseBotPath(botOnly, findInstallationAvailable, findBotAvailable, tokens) ==
    \/ botOnly
    \/ findInstallationAvailable # "True"
    \/ /\ findBotAvailable = "True"
       /\ tokens.bot_token = NoToken
       /\ tokens.user_token = NoToken

BotPathSkipped(env, tokens) ==
    [env |-> env, tokens |-> tokens, raised |-> "no", findBotCalls |-> 0,
     bot |-> NoBot, refreshedBot |-> NoBot]

\* Mutant: the rotated bot record is used but not saved.
BotPathWithoutSave(env, team, tokens) ==
    IF storeFindBot = "absent"
    THEN [BotPathSkipped(env, tokens) EXCEPT !.raised = "Exception"]
    ELSE IF storeFindBot = "unimplemented"
    THEN [BotPathSkipped(env, tokens) EXCEPT
            !.raised = "NotImplementedError", !.findBotCalls = 1]
    ELSE
    LET bot == AsyncFindBot(env, team)
        withBot == [tokens EXCEPT !.bot_token = bot.bot_token]
        refreshed == PerformBotTokenRotation(bot)
    IN  IF bot = NoBot
        THEN [BotPathSkipped(env, tokens) EXCEPT !.findBotCalls = 1]
        ELSE IF bot.bot_refresh_token = NoToken
        THEN [env |-> env, tokens |-> withBot, raised |-> "no", findBotCalls |-> 1,
              bot |-> bot, refreshedBot |-> NoBot]
        ELSE IF ~token_rotator
        THEN [env |-> env, tokens |-> withBot, raised |-> "Exception", findBotCalls |-> 1,
              bot |-> bot, refreshedBot |-> NoBot]
        ELSE IF refreshed = NoBot
        THEN [env |-> env, tokens |-> withBot, raised |-> "no", findBotCalls |-> 1,
              bot |-> bot, refreshedBot |-> NoBot]
        ELSE [env |-> [env EXCEPT
                         !.exchanges = @ \o ExchangedCredentials(bot, FALSE),
                         !.events = Append(@, "perform_bot_token_rotation")],
              tokens |-> [tokens EXCEPT !.bot_token = refreshed.bot_token],
              raised |-> "no", findBotCalls |-> 1,
              bot |-> bot, refreshedBot |-> refreshed]

\* The try block of the bot path with its two except clauses.  raised is
\* "no", "NotImplementedError" or "Exception" (both caught by resolve).
BotPath(env, team, tokens) ==
    IF storeFindBot = "absent"
    THEN [BotPathSkipped(env, tokens) EXCEPT !.raised = "Exception"]
    ELSE IF storeFindBot = "unimplemented"
    THEN [BotPathSkipped(env, tokens) EXCEPT
            !.raised = "NotImplementedError", !.findBotCalls = 1]
    ELSE
    LET bot == AsyncFindBot(env, team)
        withBot == [tokens EXCEPT !.bot_token = bot.bot_token]
        refreshed == PerformBotTokenRotation(bot)
    IN  IF bot = NoBot
        THEN [BotPathSkipped(env, tokens) EXCEPT !.findBotCalls = 1]
        ELSE IF bot.bot_refresh_token = NoToken
        THEN [env |-> env, tokens |-> withBot, raised |-> "no", findBotCalls |-> 1,
              bot |-> bot, refreshedBot |-> NoBot]
        ELSE IF ~token_rotator
        THEN [env |-> env, tokens |-> withBot, raised |-> "Exception", findBotCalls |-> 1,
              bot |-> bot, refreshedBot |-> NoBot]
        ELSE IF refreshed = NoBot
        THEN [env |-> env, tokens |-> withBot, raised |-> "no", findBotCalls |-> 1,
              bot |-> bot, refreshedBot |-> NoBot]
        ELSE [env |-> AsyncSaveBot(
                        [env EXCEPT
                           !.exchanges = @ \o ExchangedCredentials(bot, FALSE),
                           !.events = Append(@, "perform_bot_token_rotation")],
                        refreshed),
              tokens |-> [tokens EXCEPT !.bot_token = refreshed.bot_token],
              raised |-> "no", findBotCalls |-> 1,
              bot |-> bot, refreshedBot |-> refreshed]

\* Mutant: token = user_token or bot_token
ResolveTokenUserFirst(tokens) ==
    IF tokens.user_token # NoToken THEN tokens.user_token ELSE tokens.bot_token

\* token = bot_token or user_token
ResolveToken(tokens) ==
    IF tokens.bot_token # NoToken THEN tokens.bot_token ELSE tokens.user_token

\* Mutant: the check for a missing token is left out.
TokenFoundUnchecked(token) == TRUE

\* A token was found: token is not None
TokenFound(token) == token # NoToken

\* Mutant: the cache is never consulted.
CacheHitNever(cacheEnabled, cache, token) == FALSE

\* cache_enabled and token in authorize_result_cache
CacheHit(cacheEnabled, cache, token) ==
    cacheEnabled /\ token \in DOMAIN cache

\* AuthorizeResult.from_auth_test_response(response, bot_token, user_token)
FromAuthTestResponse(tokens) ==
    [bot_token |-> tokens.bot_token, user_token |-> tokens.user_token]

\* Mutant: the decision is cached whatever auth.test answered.
CacheAfterVerificationUnconditional(cacheEnabled, cache, token, verified, authorize_result) ==
    IF cacheEnabled
    THEN [t \in DOMAIN cache \cup {token} |->
            IF t = token THEN authorize_result ELSE cache[t]]
    ELSE cache

\* The cache after auth.test has answered.
CacheAfterVerification(cacheEnabled, cache, token, verified, authorize_result) ==
    IF verified /\ cacheEnabled
    THEN [t \in DOMAIN cache \cup {token} |->
            IF t = token THEN authorize_result ELSE cache[t]]
    ELSE cache

(* ------------------- the other components at rest ---------------------- *)

\* The parameter names an authorize function may declare, and the entries
\* a context may hold besides the built-in ones.
AvailableArgNames ==
    {"args", "logger", "client", "context", "enterprise_id", "team_id", "user_id"}
DeclaredArgNames == {"context", "team_id", "user_id", "say", "token"}
ContextKeys == {"say"}

\* What awaiting the authorize function ends in: a value of some type, or
\* an exception.
NoValue == [raised |-> "no", type |-> "NoneType", value |-> NoResult]

FuncOutcomes ==
    {NoValue}
    \cup {[raised |-> "no", type |-> ty, value |-> v] :
            ty \in {"AuthorizeResult", "dict"},
            v \in {[bot_token |-> Tok("xoxb", "bot", 0), user_token |-> NoToken],
                   [bot_token |-> NoToken, user_token |-> Tok("xoxp", "U1", 0)]}}
    \cup {[NoValue EXCEPT !.raised = e] : e \in {"SlackApiError", "Exception"}}

NoCallableCall ==
    [called |-> FALSE, arg_names |-> {}, context_keys |-> {}, kwargs |-> << >>,
     warnings |-> {}, func_outcome |-> NoValue, outcome |-> NoValue]

Consumers == {"c1", "c2"}

\* Key 0 stands for a state that issue() has never handed out.
StateKeys == 0..MaxStates

NoConsumeCall == [pc |-> "idle", state |-> 0, still_valid |-> FALSE, result |-> FALSE]

Tasks == {"a", "b"}

NoTask ==
    [pc |-> "idle", team |-> "None", bot |-> NoBot, refreshed |-> NoBot,
     tokens |-> NoResult, token |-> NoToken, outcome |-> "none", result |-> NoResult]

CallableAtRest == callable_call = NoCallableCall

StateStoreAtRest ==
    /\ s3_objects = << >>
    /\ clock = 0
    /\ expiration_seconds = 1
    /\ issued_states = 0
    /\ consume_calls = [c \in Consumers |-> NoConsumeCall]
    /\ consume_accepted = [k \in StateKeys |-> 0]

TasksAtRest ==
    /\ tasks = [t \in Tasks |-> NoTask]
    /\ exchange_log = << >>

(* ------------------------------ behaviour ------------------------------ *)

\* A record whose tokens can be refreshed and are not yet about to expire.
CanExpire(record) ==
    /\ record.bot_refresh_token # NoToken \/ record.user_refresh_token # NoToken
    /\ ~record.bot_expiring /\ ~record.user_expiring

\* How often the tokens of a stored record have been rotated.
Serial(installation) ==
    IF installation.bot_refresh_token # NoToken THEN installation.bot_refresh_token[3]
    ELSE IF installation.user_refresh_token # NoToken THEN installation.user_refresh_token[3]
    ELSE 0

BotSerial(bot) ==
    IF bot.bot_refresh_token # NoToken THEN bot.bot_refresh_token[3] ELSE 0

RECURSIVE SumOver(_, _)
SumOver(f, keys) ==
    IF keys = {} THEN 0
    ELSE LET k == CHOOSE x \in keys : TRUE
         IN  f[k] + SumOver(f, keys \ {k})

\* The rotations that the stored records have been through.
Rotations ==
    SumOver([t \in Teams |->
               SumOver([u \in Installers |-> Serial(installations[t][u])], Installers)
               + BotSerial(bots[t])],
            Teams)

\* The stored records that are waiting for a rotation.
Expiring ==
    {<<t, u>> \in Teams \X Installers :
        installations[t][u].bot_expiring \/ installations[t][u].user_expiring}
    \cup {<<t, "bot">> : t \in {x \in Teams : bots[x].bot_expiring}}

NoCall ==
    [team |-> "None", user |-> NoUser, outcome |-> "none", result |-> NoResult,
     tokens |-> NoResult, token |-> NoToken, verifierCalls |-> 0,
     verifierAccepted |-> FALSE, cacheHit |-> FALSE,
     findInstallationCalls |-> << >>, findBotCalls |-> 0,
     installationPath |-> "no", botPath |-> "no",
     found |-> NoInstallation, this_user_installation |-> NoInstallation,
     refreshedThisUser |-> NoInstallation, refreshedLatest |-> NoInstallation,
     bot |-> NoBot, refreshedBot |-> NoBot,
     exchanges |-> << >>, saves |-> << >>, events |-> << >>,
     installationTokens |-> NoResult,
     cacheBefore |-> << >>, notImplementedBefore |-> FALSE,
     findBotAvailableBefore |-> "None",
     previous |-> [team |-> "None", user |-> NoUser, outcome |-> "none",
                   token |-> NoToken, verifierCalls |-> 0, exchanged |-> FALSE]]

\* The installation records a team may hold when the resolver starts.
InstallationChoices(team, user, rotation) ==
    {NoInstallation}
    \cup {NewInstallation(team, user, hb, hu, rotation) :
            <<hb, hu>> \in {<<TRUE, TRUE>>, <<TRUE, FALSE>>, <<FALSE, TRUE>>}}

Init ==
    /\ bot_only \in BOOLEAN
    /\ cache_enabled \in BOOLEAN
    /\ token_rotator \in BOOLEAN
    /\ storeFindInstallation \in {"absent", "unimplemented", "implemented"}
    /\ storeFindBot \in {"absent", "unimplemented", "implemented"}
    /\ find_installation_available = "None"
    /\ find_bot_available = "None"
    /\ authorize_result_cache = << >>
    /\ \E rotation \in BOOLEAN :
         /\ \E i1 \in InstallationChoices("T1", "U1", rotation),
               i2 \in InstallationChoices("T1", "U2", rotation) :
              /\ i2 = NoInstallation => i1 = NoInstallation
              /\ installations =
                   [t \in Teams |-> [u \in Installers |-> IF u = "U1" THEN i1 ELSE i2]]
         /\ bots \in [Teams -> {NoBot}] \cup {[t \in Teams |-> NewBot(t, rotation)]}
    /\ latestInstaller =
         [t \in Teams |-> IF installations[t]["U2"] = NoInstallation THEN NoUser ELSE "U2"]
    /\ accepted = {}
    /\ notImplementedSeen = FALSE
    /\ last = NoCall
    /\ CallableAtRest
    /\ StateStoreAtRest
    /\ TasksAtRest

\* AsyncInstallationStoreAuthorize.__call__ for (team, user); verifierOk is
\* auth.test's answer should the call reach it.
Resolve(team, user, verifierOk) ==
    \E fia0 \in {ProbeAvailable(find_installation_available, storeFindInstallation)},
       fba0 \in {ProbeAvailable(find_bot_available, storeFindBot)},
       env0 \in {Env(installations, bots)} :
    \E inst \in {IF UseInstallationPath(bot_only, fia0)
                 THEN InstallationPath(env0, team, user)
                 ELSE [InstallationPathSkipped(env0) EXCEPT !.raised = "skipped"]} :
    \E fia1 \in {IF inst.raised = "NotImplementedError" THEN "False" ELSE fia0},
       propagated \in {inst.raised = "BoltError"} :
    \E botp \in {IF ~propagated /\ UseBotPath(bot_only, fia1, fba0, inst.tokens)
                 THEN BotPath(inst.env, team, inst.tokens)
                 ELSE [BotPathSkipped(inst.env, inst.tokens) EXCEPT !.raised = "skipped"]} :
    \E fba1 \in {IF botp.raised = "NotImplementedError" THEN "False" ELSE fba0},
       tokens \in {botp.tokens} :
    \E token \in {ResolveToken(tokens)} :
    \E hit \in {~propagated /\ TokenFound(token)
                  /\ CacheHit(cache_enabled, authorize_result_cache, token)} :
    \E verifierCalled \in {~propagated /\ TokenFound(token) /\ ~hit} :
    \E verified \in {verifierCalled /\ verifierOk},
       authorize_result \in {FromAuthTestResponse(tokens)} :
        /\ find_installation_available' = fia1
        /\ find_bot_available' = fba1
        /\ installations' = botp.env.installations
        /\ bots' = botp.env.bots
        /\ authorize_result_cache' =
             CacheAfterVerification(cache_enabled, authorize_result_cache,
                                    token, verified, authorize_result)
        /\ accepted' = IF verified THEN accepted \cup {token} ELSE accepted
        /\ notImplementedSeen' =
             (notImplementedSeen \/ inst.raised = "NotImplementedError")
        /\ last' =
             [team |-> team, user |-> user,
              outcome |-> IF propagated THEN "raised"
                          ELSE IF hit \/ verified THEN "result"
                          ELSE "not_found",
              result |-> IF hit THEN authorize_result_cache[token]
                         ELSE IF verified THEN authorize_result
                         ELSE NoResult,
              tokens |-> tokens, token |-> token,
              verifierCalls |-> IF verifierCalled THEN 1 ELSE 0,
              verifierAccepted |-> verified,
              cacheHit |-> hit,
              findInstallationCalls |-> inst.findInstallationCalls,
              findBotCalls |-> botp.findBotCalls,
              installationPath |-> inst.raised, botPath |-> botp.raised,
              found |-> inst.found,
              this_user_installation |-> inst.this_user_installation,
              refreshedThisUser |-> inst.refreshedThisUser,
              refreshedLatest |-> inst.refreshedLatest,
              bot |-> botp.bot, refreshedBot |-> botp.refreshedBot,
              exchanges |-> botp.env.exchanges, saves |-> botp.env.saves,
              events |-> IF verifierCalled
                         THEN Append(botp.env.events, "auth_test")
                         ELSE botp.env.events,
              installationTokens |-> inst.tokens,
              cacheBefore |-> authorize_result_cache,
              notImplementedBefore |-> notImplementedSeen,
              findBotAvailableBefore |-> find_bot_available,
              previous |-> [team |-> last.team, user |-> last.user,
                            outcome |-> last.outcome, token |-> last.token,
                            verifierCalls |-> last.verifierCalls,
                            exchanged |-> last.exchanges # << >>]]
        /\ UNCHANGED <<config, latestInstaller>>
        /\ UNCHANGED <<callableVars, stateStoreVars, taskVars>>

\* Time passes: the tokens of an installation that can be refreshed come
\* within the rotation threshold of their expiry.
ExpireInstallation(team, user) ==
    /\ Rotations + Cardinality(Expiring) < MaxRotations
    /\ CanExpire(installations[team][user])
    /\ installations' =
         [installations EXCEPT
            ![team][user].bot_expiring = (installations[team][user].bot_refresh_token # NoToken),
            ![team][user].user_expiring = (installations[team][user].user_refresh_token # NoToken)]
    /\ last' = NoCall
    /\ UNCHANGED <<config, find_installation_available, find_bot_available,
                   authorize_result_cache, latestInstaller, bots, accepted,
                   notImplementedSeen>>
    /\ UNCHANGED <<callableVars, stateStoreVars, taskVars>>

\* Time passes: the token of a bot record comes within the threshold.
ExpireBot(team) ==
    /\ Rotations + Cardinality(Expiring) < MaxRotations
    /\ bots[team].bot_refresh_token # NoToken
    /\ ~bots[team].bot_expiring
    /\ bots' = [bots EXCEPT ![team].bot_expiring = TRUE]
    /\ last' = NoCall
    /\ UNCHANGED <<config, find_installation_available, find_bot_available,
                   authorize_result_cache, latestInstaller, installations,
                   accepted, notImplementedSeen>>
    /\ UNCHANGED <<callableVars, stateStoreVars, taskVars>>

Next ==
    \/ \E team \in Teams, user \in Requesters, verifierOk \in BOOLEAN :
         Resolve(team, user, verifierOk)
    \/ \E team \in Teams, user \in Installers : ExpireInstallation(team, user)
    \/ \E team \in Teams : ExpireBot(team)

Spec == Init /\ [][Next]_vars

(* ----------------------- AsyncCallableAuthorize ------------------------ *)

\* kwargs: the declared parameters that are available by name get their
\* value, the others None.
Kwargs(arg_names, context_keys) ==
    [k \in arg_names |->
       IF k \in AvailableArgNames \cup context_keys THEN <<"value", k>> ELSE <<"None">>]

\* The declared parameters a warning is logged for.
InvalidArgNames(arg_names, context_keys) ==
    arg_names \ (AvailableArgNames \cup context_keys)

\* Mutant: except Exception in the place of except SlackApiError.
CallableAuthorizeCatchingAll(func_outcome) ==
    IF func_outcome.raised # "no"
    THEN NoValue
    ELSE IF func_outcome.type \in {"NoneType", "AuthorizeResult"}
    THEN func_outcome
    ELSE NoValue

\* What __call__ ends in once the function has been awaited.
CallableAuthorize(func_outcome) ==
    IF func_outcome.raised = "SlackApiError"
    THEN NoValue
    ELSE IF func_outcome.raised # "no"
    THEN func_outcome
    ELSE IF func_outcome.type = "NoneType"
    THEN func_outcome
    ELSE IF func_outcome.type = "AuthorizeResult"
    THEN func_outcome
    ELSE [NoValue EXCEPT !.raised = "ValueError"]

\* AsyncCallableAuthorize.__call__ for a function that declares arg_names,
\* with a context that holds context_keys; the function ends in func_outcome.
CallableAuthorizeCall(arg_names, context_keys, func_outcome) ==
    /\ callable_call' =
         [called |-> TRUE,
          arg_names |-> arg_names,
          context_keys |-> context_keys,
          kwargs |-> Kwargs(arg_names, context_keys),
          warnings |-> InvalidArgNames(arg_names, context_keys),
          func_outcome |-> func_outcome,
          outcome |-> CallableAuthorize(func_outcome)]
    /\ UNCHANGED <<resolverVars, stateStoreVars, taskVars>>

\* A resolver that is configured but not used.
ResolverAtRest ==
    /\ bot_only = FALSE
    /\ cache_enabled = FALSE
    /\ token_rotator = FALSE
    /\ storeFindInstallation = "implemented"
    /\ storeFindBot = "implemented"
    /\ find_installation_available = "None"
    /\ find_bot_available = "None"
    /\ authorize_result_cache = << >>
    /\ installations = [t \in Teams |-> [u \in Installers |-> NoInstallation]]
    /\ latestInstaller = [t \in Teams |-> NoUser]
    /\ bots = [t \in Teams |-> NoBot]
    /\ accepted = {}
    /\ notImplementedSeen = FALSE
    /\ last = NoCall

InitCallable ==
    /\ ResolverAtRest
    /\ CallableAtRest
    /\ StateStoreAtRest
    /\ TasksAtRest

NextCallable ==
    \E arg_names \in SUBSET DeclaredArgNames, context_keys \in SUBSET ContextKeys,
       func_outcome \in FuncOutcomes :
        CallableAuthorizeCall(arg_names, context_keys, func_outcome)

SpecCallable == InitCallable /\ [][NextCallable]_vars

(* ----------------------- AmazonS3OAuthStateStore ----------------------- *)

\* issue(): a fresh state, stored with the time of its creation.
Issue ==
    /\ issued_states < MaxStates
    /\ issued_states' = issued_states + 1
    /\ s3_objects' =
         [k \in DOMAIN s3_objects \cup {issued_states + 1} |->
            IF k = issued_states + 1 THEN clock ELSE s3_objects[k]]
    /\ UNCHANGED <<clock, expiration_seconds, consume_calls, consume_accepted>>
    /\ UNCHANGED <<resolverVars, callableVars, taskVars>>

\* time.time() < created + expiration_seconds
StillValid(created, now) == now < created + expiration_seconds

\* consume(state) up to delete_object: get_object and the expiry check.  A
\* key that is not in the bucket makes get_object raise; consume logs the
\* exception and returns False.
ConsumeGetObject(c, state) ==
    /\ consume_calls[c].pc \in {"idle", "returned"}
    /\ consume_calls' =
         [consume_calls EXCEPT ![c] =
            IF state \in DOMAIN s3_objects
            THEN [pc |-> "delete_object", state |-> state,
                  still_valid |-> StillValid(s3_objects[state], clock),
                  result |-> FALSE]
            ELSE [pc |-> "returned", state |-> state,
                  still_valid |-> FALSE, result |-> FALSE]]
    /\ UNCHANGED <<s3_objects, clock, expiration_seconds, issued_states,
                   consume_accepted>>
    /\ UNCHANGED <<resolverVars, callableVars, taskVars>>

\* consume(state) from delete_object on: the key is deleted, valid or not,
\* and still_valid is returned.  Deleting a key that is gone is no error.
ConsumeDeleteObject(c) ==
    /\ consume_calls[c].pc = "delete_object"
    /\ s3_objects' =
         [k \in DOMAIN s3_objects \ {consume_calls[c].state} |-> s3_objects[k]]
    /\ consume_calls' =
         [consume_calls EXCEPT ![c].pc = "returned",
                               ![c].result = consume_calls[c].still_valid]
    /\ consume_accepted' =
         [consume_accepted EXCEPT ![consume_calls[c].state] =
            IF consume_calls[c].still_valid THEN @ + 1 ELSE @]
    /\ UNCHANGED <<clock, expiration_seconds, issued_states>>
    /\ UNCHANGED <<resolverVars, callableVars, taskVars>>

\* A second passes.
Tick ==
    /\ clock < MaxClock
    /\ clock' = clock + 1
    /\ UNCHANGED <<s3_objects, expiration_seconds, issued_states, consume_calls,
                   consume_accepted>>
    /\ UNCHANGED <<resolverVars, callableVars, taskVars>>

InitStateStore ==
    /\ ResolverAtRest
    /\ CallableAtRest
    /\ TasksAtRest
    /\ s3_objects = << >>
    /\ clock = 0
    /\ expiration_seconds \in 1..MaxClock
    /\ issued_states = 0
    /\ consume_calls = [c \in Consumers |-> NoConsumeCall]
    /\ consume_accepted = [k \in StateKeys |-> 0]

NextStateStore ==
    \/ Issue
    \/ \E c \in Consumers, state \in StateKeys : ConsumeGetObject(c, state)
    \/ \E c \in Consumers : ConsumeDeleteObject(c)
    \/ Tick

SpecStateStore == InitStateStore /\ [][NextStateStore]_vars

(* ------------- concurrent resolve calls of a bot-only resolver --------- *)

\* The pair the authorization server issues in the exchange of serial n.
IssuedBotPair(bot, n) ==
    [bot EXCEPT
       !.bot_token = Tok("xoxb", bot.bot_refresh_token[2], n),
       !.bot_refresh_token = Tok("xoxe-b", bot.bot_refresh_token[2], n),
       !.bot_expiring = FALSE]

\* The call from the end of the bot path to the await of auth.test:
\* token = bot_token or user_token, the None check and the cache check.
AfterBotPath(task, tokens) ==
    LET token == ResolveToken(tokens)
    IN  IF ~TokenFound(token)
        THEN [task EXCEPT !.pc = "done", !.tokens = tokens, !.token = token,
                          !.outcome = "not_found"]
        ELSE IF CacheHit(cache_enabled, authorize_result_cache, token)
        THEN [task EXCEPT !.pc = "done", !.tokens = tokens, !.token = token,
                          !.outcome = "result",
                          !.result = authorize_result_cache[token]]
        ELSE [task EXCEPT !.pc = "auth_test", !.tokens = tokens, !.token = token]

\* A task enters resolve: the probes, the installation path is skipped,
\* the bot path is entered and find_bot is awaited.
StartResolve(t, team) ==
    /\ tasks[t].pc = "idle"
    /\ \E fia \in {ProbeAvailable(find_installation_available, storeFindInstallation)},
          fba \in {ProbeAvailable(find_bot_available, storeFindBot)} :
         /\ ~UseInstallationPath(bot_only, fia)
         /\ UseBotPath(bot_only, fia, fba, NoResult)
         /\ find_installation_available' = fia
         /\ find_bot_available' = fba
    /\ tasks' = [tasks EXCEPT ![t] = [NoTask EXCEPT !.pc = "async_find_bot",
                                                     !.team = team]]
    /\ UNCHANGED <<config, authorize_result_cache, installations, latestInstaller,
                   bots, accepted, notImplementedSeen, last, exchange_log>>
    /\ UNCHANGED <<callableVars, stateStoreVars>>

\* find_bot returns: the bot token is taken, and the rotation is awaited
\* if the record has a refresh token.
FindBotReturns(t) ==
    /\ tasks[t].pc = "async_find_bot"
    /\ storeFindBot = "implemented"
    /\ LET bot == AsyncFindBot(Env(installations, bots), tasks[t].team)
           withBot == [NoResult EXCEPT !.bot_token = bot.bot_token]
       IN  tasks' =
             [tasks EXCEPT ![t] =
                IF bot = NoBot
                THEN AfterBotPath(tasks[t], NoResult)
                ELSE IF bot.bot_refresh_token = NoToken \/ ~token_rotator
                THEN AfterBotPath([tasks[t] EXCEPT !.bot = bot], withBot)
                ELSE [tasks[t] EXCEPT !.pc = "perform_bot_token_rotation",
                                      !.bot = bot, !.tokens = withBot]]
    /\ UNCHANGED <<resolverVars, exchange_log>>
    /\ UNCHANGED <<callableVars, stateStoreVars>>

\* perform_bot_token_rotation returns: none if the token of the record
\* the task holds is not about to expire, else the record with the pair
\* the authorization server has issued for its refresh token.
RotationReturns(t) ==
    /\ tasks[t].pc = "perform_bot_token_rotation"
    /\ IF ~BotNeedsRotation(tasks[t].bot)
       THEN /\ tasks' = [tasks EXCEPT ![t] = AfterBotPath(tasks[t], tasks[t].tokens)]
            /\ UNCHANGED exchange_log
       ELSE LET refreshed == IssuedBotPair(tasks[t].bot, Len(exchange_log) + 1)
            IN  /\ exchange_log' =
                     Append(exchange_log,
                            [credential |-> tasks[t].bot.bot_refresh_token,
                             refreshed |-> refreshed])
                /\ tasks' = [tasks EXCEPT ![t].pc = "async_save_bot",
                                          ![t].refreshed = refreshed]
    /\ UNCHANGED resolverVars
    /\ UNCHANGED <<callableVars, stateStoreVars>>

\* save_bot returns: the refreshed record is stored and its token taken.
SaveBotReturns(t) ==
    /\ tasks[t].pc = "async_save_bot"
    /\ bots' = AsyncSaveBot(Env(installations, bots), tasks[t].refreshed).bots
    /\ tasks' =
         [tasks EXCEPT ![t] =
            AfterBotPath(tasks[t],
                         [tasks[t].tokens EXCEPT
                            !.bot_token = tasks[t].refreshed.bot_token])]
    /\ UNCHANGED <<config, find_installation_available, find_bot_available,
                   authorize_result_cache, installations, latestInstaller,
                   accepted, notImplementedSeen, last, exchange_log>>
    /\ UNCHANGED <<callableVars, stateStoreVars>>

\* auth.test returns: the decision is built and cached, or None returned.
AuthTestReturns(t, verifierOk) ==
    /\ tasks[t].pc = "auth_test"
    /\ authorize_result_cache' =
         CacheAfterVerification(cache_enabled, authorize_result_cache,
                                tasks[t].token, verifierOk,
                                FromAuthTestResponse(tasks[t].tokens))
    /\ accepted' = IF verifierOk THEN accepted \cup {tasks[t].token} ELSE accepted
    /\ tasks' =
         [tasks EXCEPT ![t].pc = "done",
                       ![t].outcome = IF verifierOk THEN "result" ELSE "not_found",
                       ![t].result = IF verifierOk
                                     THEN FromAuthTestResponse(tasks[t].tokens)
                                     ELSE NoResult]
    /\ UNCHANGED <<config, find_installation_available, find_bot_available,
                   installations, latestInstaller, bots, notImplementedSeen,
                   last, exchange_log>>
    /\ UNCHANGED <<callableVars, stateStoreVars>>

InitTasks ==
    /\ bot_only = TRUE
    /\ cache_enabled \in BOOLEAN
    /\ token_rotator = TRUE
    /\ storeFindInstallation \in {"absent", "implemented"}
    /\ storeFindBot = "implemented"
    /\ find_installation_available = "None"
    /\ find_bot_available = "None"
    /\ authorize_result_cache = << >>
    /\ installations = [t \in Teams |-> [u \in Installers |-> NoInstallation]]
    /\ latestInstaller = [t \in Teams |-> NoUser]
    /\ bots = [t \in Teams |-> NewBot(t, TRUE)]
    /\ accepted = {}
    /\ notImplementedSeen = FALSE
    /\ last = NoCall
    /\ CallableAtRest
    /\ StateStoreAtRest
    /\ TasksAtRest

NextTasks ==
    \/ \E t \in Tasks, team \in Teams : StartResolve(t, team)
    \/ \E t \in Tasks : FindBotReturns(t)
    \/ \E t \in Tasks : RotationReturns(t)
    \/ \E t \in Tasks : SaveBotReturns(t)
    \/ \E t \in Tasks, verifierOk \in BOOLEAN : AuthTestReturns(t, verifierOk)
    \/ \E team \in Teams : ExpireBot(team)

SpecTasks == InitTasks /\ [][NextTasks]_vars

(* ------------------------------- claims -------------------------------- *)

Returned == last.outcome = "result"

\* The call looked up the latest installation, found one installed by
\* somebody else than the requester, and looked up the requester's own.
DifferentInstaller ==
    /\ last.found # NoInstallation
    /\ last.found.user_id # last.user

HasRefreshCredential(installation) ==
    \/ installation.bot_refresh_token # NoToken
    \/ installation.user_refresh_token # NoToken

\* C1: on the installation path, when the latest installation was installed
\* by another user than the requester and the requester has no installation
\* of their own, the decision returned carries the latest installation's bot
\* token and no user token.
C1_InstallerUserTokenWithheld ==
    (/\ Returned
     /\ DifferentInstaller
     /\ last.this_user_installation = NoInstallation)
    => /\ last.result.bot_token = last.found.bot_token
       /\ last.result.user_token = NoToken

\* C2: a call that finds a record carrying a refresh credential while no
\* token rotator is configured raises; it returns neither a decision nor
\* not-found.
C2_RefreshWithoutRotatorRaises ==
    (/\ last.outcome # "none"
     /\ ~token_rotator
     /\ \/ HasRefreshCredential(last.found)
        \/ HasRefreshCredential(last.this_user_installation)
        \/ last.bot.bot_refresh_token # NoToken)
    => last.outcome = "raised"

\* The bot token of the latest installation once the call has run its
\* rotation: the rotated one if the record was rotated, else the stored one.
LatestBotToken ==
    IF last.refreshedLatest # NoInstallation
    THEN last.refreshedLatest.bot_token
    ELSE last.found.bot_token

\* C3: when the latest installation has a bot token and the requester's own
\* installation, made by a different user, has one too, the decision's bot
\* token is the latest installation's, whatever the lookup and the rotation
\* of the requester's own installation produced.
C3_LatestBotTokenWins ==
    (/\ Returned
     /\ DifferentInstaller
     /\ last.found.bot_token # NoToken
     /\ last.this_user_installation # NoInstallation
     /\ last.this_user_installation.bot_token # NoToken)
    => /\ last.result.bot_token = LatestBotToken
       /\ last.this_user_installation.user_id # last.found.user_id
            => /\ last.result.bot_token # last.this_user_installation.bot_token
               /\ last.refreshedThisUser # NoInstallation
                    => last.result.bot_token # last.refreshedThisUser.bot_token

\* C3 witness: such a call returned a decision after it had rotated the
\* requester's own installation.
C3_Witness ==
    /\ Returned
    /\ DifferentInstaller
    /\ last.found.bot_token # NoToken
    /\ last.this_user_installation.bot_token # NoToken
    /\ last.this_user_installation.user_id = last.user
    /\ last.refreshedThisUser # NoInstallation
    /\ last.refreshedThisUser.bot_token # last.this_user_installation.bot_token

\* C4: in every configuration, a call whose lookups return no installation
\* and no bot record returns not-found, does not raise and does not call
\* the verifier.
C4_NothingStoredIsNotFound ==
    (/\ last.outcome # "none"
     /\ last.found = NoInstallation
     /\ last.bot = NoBot)
    => /\ last.outcome = "not_found"
       /\ last.verifierCalls = 0

\* C4 witness: both lookups were made and both returned none.
C4_Witness ==
    /\ last.outcome = "not_found"
    /\ last.findInstallationCalls = <<NoUser>>
    /\ last.installationPath = "no"
    /\ last.found = NoInstallation
    /\ last.findBotCalls = 1
    /\ last.botPath = "no"
    /\ last.bot = NoBot

\* C5: once find_installation has raised NotImplementedError the flag is
\* "False" for good, and a call that starts after that makes no
\* find_installation call and enters the bot path.
C5_InstallationLookupNeverReprobed ==
    /\ notImplementedSeen => find_installation_available = "False"
    /\ last.notImplementedBefore
         => /\ last.findInstallationCalls = << >>
            /\ last.installationPath = "skipped"
            /\ last.botPath # "skipped"

\* C5 witness: a call that started after the NotImplementedError went to
\* find_bot and returned a decision for a requester.
C5_Witness ==
    /\ last.notImplementedBefore
    /\ last.user # NoUser
    /\ last.findBotCalls = 1
    /\ Returned

\* The bot token of the bot record once the call has run its rotation.
BotRecordToken ==
    IF last.refreshedBot # NoBot
    THEN last.refreshedBot.bot_token
    ELSE last.bot.bot_token

\* C6: a call in which find_installation raises NotImplementedError while
\* the store holds a bot record for find_bot goes on to the bot path in the
\* same call, finds the record, does not raise, resolves the record's bot
\* token, has it verified (or finds it in the cache) and, the token being
\* accepted, returns a decision with that bot token.
C6_FallsThroughToBotRecord ==
    (/\ last.installationPath = "NotImplementedError"
     /\ storeFindBot = "implemented"
     /\ bots[last.team] # NoBot)
    => /\ last.outcome # "raised"
       /\ last.findBotCalls = 1
       /\ last.bot # NoBot
       /\ last.token = BotRecordToken
       /\ last.token # NoToken
       /\ last.verifierCalls = 1 \/ last.cacheHit
       /\ (last.verifierAccepted \/ last.cacheHit)
            => /\ Returned
               /\ last.result.bot_token = BotRecordToken
       /\ Returned => last.verifierAccepted \/ last.cacheHit

\* C6 witness: the fall-through happened and the stored bot token was
\* verified and returned.
C6_Witness ==
    /\ last.installationPath = "NotImplementedError"
    /\ last.findInstallationCalls = <<NoUser>>
    /\ last.bot # NoBot
    /\ last.verifierCalls = 1
    /\ Returned
    /\ last.result.bot_token = last.bot.bot_token

\* C7: with the cache enabled, a call that resolves the token for which the
\* call just before it returned a decision does not call the verifier and
\* returns the cached decision, so that the two calls verify at most once;
\* with the cache disabled every call that resolves a token calls the
\* verifier and the cache stays empty.
C7_CacheSavesVerification ==
    /\ (/\ cache_enabled
        /\ last.previous.outcome = "result"
        /\ last.outcome \in {"result", "not_found"}
        /\ last.token # NoToken
        /\ last.token = last.previous.token)
       => /\ last.verifierCalls = 0
          /\ last.previous.verifierCalls + last.verifierCalls <= 1
          /\ last.cacheHit
          /\ Returned
          /\ last.result = last.cacheBefore[last.token]
    /\ ~cache_enabled
       => /\ authorize_result_cache = << >>
          /\ (last.outcome \in {"result", "not_found"} /\ last.token # NoToken)
               => last.verifierCalls = 1
          /\ (last.previous.outcome \in {"result", "not_found"}
                /\ last.previous.token # NoToken)
               => last.previous.verifierCalls = 1

\* C7 witness: the first of two calls verified the token, the second was
\* served from the cache.
C7_Witness ==
    /\ cache_enabled
    /\ last.previous.outcome = "result"
    /\ last.previous.verifierCalls = 1
    /\ last.previous.token = last.token
    /\ last.cacheHit
    /\ Returned

\* C8: a call whose token the verifier rejects returns not-found and leaves
\* the cache as it was; every key of the cache is a token that the verifier
\* has accepted.
C8_RejectedTokenNotCached ==
    /\ (last.verifierCalls = 1 /\ ~last.verifierAccepted)
         => /\ last.outcome = "not_found"
            /\ authorize_result_cache = last.cacheBefore
    /\ DOMAIN authorize_result_cache \subseteq accepted

\* C8 witness: with a cache that already holds a decision, the verifier
\* rejected another token.
C8_Witness ==
    /\ cache_enabled
    /\ last.verifierCalls = 1
    /\ ~last.verifierAccepted
    /\ last.outcome = "not_found"
    /\ last.cacheBefore # << >>
    /\ last.token \notin DOMAIN authorize_result_cache

\* The call's count of exchanges of one refresh credential.
ExchangeCount(credential) ==
    Cardinality({i \in 1..Len(last.exchanges) : last.exchanges[i] = credential})

\* The refresh credentials of a record that are due for an exchange.
DueCredentials(installation) ==
    (IF BotNeedsRotation(installation) THEN {installation.bot_refresh_token} ELSE {})
    \cup (IF UserNeedsRotation(installation)
          THEN {installation.user_refresh_token} ELSE {})

\* The stored record holds the pair issued for the old record's credential.
HoldsNewBotPair(stored, old) ==
    /\ stored.bot_token = Exchange("xoxb", old.bot_refresh_token)
    /\ stored.bot_refresh_token = Exchange("xoxe-b", old.bot_refresh_token)
    /\ ~stored.bot_expiring

\* C9: with a rotator configured, a credential that is due for a refresh in
\* a record the call found is exchanged exactly once in that call and the
\* stored record then holds the new pair; a call for the same coordinates
\* right after a call that refreshed exchanges nothing and saves nothing.
C9_RefreshedOncePerCall ==
    /\ (token_rotator /\ last.outcome \in {"result", "not_found"})
         => /\ \A c \in DueCredentials(last.found)
                       \cup DueCredentials(last.this_user_installation) :
                 ExchangeCount(c) = 1
            /\ BotNeedsRotation(last.bot)
                 => ExchangeCount(last.bot.bot_refresh_token) = 1
            /\ \A r \in {last.found, last.this_user_installation} :
                 /\ BotNeedsRotation(r)
                      => HoldsNewBotPair(installations[r.team_id][r.user_id], r)
                 /\ UserNeedsRotation(r)
                      => installations[r.team_id][r.user_id].user_refresh_token
                           = Exchange("xoxe-p", r.user_refresh_token)
            /\ BotNeedsRotation(last.bot)
                 => HoldsNewBotPair(bots[last.bot.team_id], last.bot)
    /\ (/\ last.previous.exchanged
        /\ last.previous.team = last.team
        /\ last.previous.user = last.user)
         => /\ last.exchanges = << >>
            /\ last.saves = << >>

\* C10: a decision that is returned, built by the call or taken from the
\* cache, has a bot token or a user token, and the token it stands on (the
\* bot token if it has one, else the user token) has been accepted by the
\* verifier.
C10_DecisionVerified ==
    Returned
    => /\ last.result.bot_token # NoToken \/ last.result.user_token # NoToken
       /\ (IF last.result.bot_token # NoToken
           THEN last.result.bot_token
           ELSE last.result.user_token) \in accepted

\* C10 witness: a decision with both tokens was served from the cache.
C10_Witness ==
    /\ Returned
    /\ last.cacheHit
    /\ last.result.bot_token # NoToken
    /\ last.result.user_token # NoToken

\* C11: once find_bot has raised NotImplementedError in a resolve call (the
\* store has the operation, the flag is "False" when a call starts), the
\* flag is still "False" after the call and the call has not invoked
\* find_bot, whatever the configuration.
C11_BotLookupNeverRetried ==
    (/\ last.outcome # "none"
     /\ storeFindBot = "unimplemented"
     /\ last.findBotAvailableBefore = "False")
    => /\ find_bot_available = "False"
       /\ last.findBotCalls = 0

\* The token a record holds once the call is over: the refreshed one if the
\* call has refreshed the record.
BotTokenOf(record, refreshed) ==
    IF refreshed # NoInstallation THEN refreshed.bot_token ELSE record.bot_token

UserTokenOf(record, refreshed) ==
    IF refreshed # NoInstallation THEN refreshed.user_token ELSE record.user_token

\* C12: when the latest installation has no bot token, was installed by
\* another user than the requester, and the requester's own installation
\* has a bot token, the decision built by the call carries the bot token
\* and the user token of the requester's own installation (the refreshed
\* ones if that installation was refreshed), whatever the rotation of the
\* latest installation does.
C12_OwnInstallationSuppliesTokens ==
    (/\ Returned
     /\ ~last.cacheHit
     /\ DifferentInstaller
     /\ last.found.bot_token = NoToken
     /\ last.this_user_installation # NoInstallation
     /\ last.this_user_installation.bot_token # NoToken)
    => /\ last.result.bot_token
            = BotTokenOf(last.this_user_installation, last.refreshedThisUser)
       /\ last.result.user_token
            = UserTokenOf(last.this_user_installation, last.refreshedThisUser)

InstallationSaves ==
    {i \in 1..Len(last.saves) : last.saves[i][1] = "installation"}

\* C13: in bot-only mode a resolve call never invokes find_installation and
\* never saves an installation; a decision has no user token, and its bot
\* token is the one of the stored bot record.
C13_BotOnlyIgnoresInstallations ==
    (bot_only /\ last.outcome # "none")
    => /\ last.findInstallationCalls = << >>
       /\ InstallationSaves = {}
       /\ last.refreshedThisUser = NoInstallation
       /\ last.refreshedLatest = NoInstallation
       /\ Returned
            => /\ last.result.user_token = NoToken
               /\ bots[last.team] # NoBot
               /\ last.result.bot_token = bots[last.team].bot_token

\* C13 witness: a bot-only resolver whose store holds an installation with
\* a user token and implements find_installation returned a decision.
C13_Witness ==
    /\ bot_only
    /\ storeFindInstallation = "implemented"
    /\ installations["T1"]["U2"] # NoInstallation
    /\ installations["T1"]["U2"].user_token # NoToken
    /\ Returned

\* C14: when a step of the bot path fails with something else than
\* NotImplementedError, the call raises nothing and goes on with the
\* candidates it had before the bot path: the bot record's token is not
\* a candidate.
C14_FailedBotPathYieldsNoToken ==
    last.botPath = "Exception"
    => /\ last.outcome # "raised"
       /\ last.tokens = last.installationTokens

RotationEvents == {"perform_token_rotation", "perform_bot_token_rotation"}

SaveOf(event) ==
    IF event = "perform_token_rotation" THEN "async_save" ELSE "async_save_bot"

\* C15: in every resolve call auth.test comes after every token rotation
\* and every save; every rotation that yields a record is followed by the
\* save of that record, and the store holds the refreshed record when the
\* call is over.
C15_RefreshAndSaveBeforeVerification ==
    /\ \A i \in 1..Len(last.events) :
         /\ last.events[i] = "auth_test" => i = Len(last.events)
         /\ last.events[i] \in RotationEvents
              => /\ i < Len(last.events)
                 /\ last.events[i + 1] = SaveOf(last.events[i])
    /\ Len(last.exchanges) > 0
         => \E i \in 1..Len(last.events) : last.events[i] \in RotationEvents
    /\ last.refreshedBot # NoBot => bots[last.team] = last.refreshedBot
    /\ last.refreshedLatest # NoInstallation
         => installations[last.team][last.refreshedLatest.user_id]
              = last.refreshedLatest
    /\ last.refreshedThisUser # NoInstallation
         => \E i \in InstallationSaves :
              last.saves[i] = <<"installation", last.team,
                                last.refreshedThisUser.user_id>>

\* C15 witness: a call rotated the token of the bot record, saved the
\* record and then had the new token verified.
C15_Witness ==
    /\ Returned
    /\ last.refreshedBot # NoBot
    /\ last.token = last.refreshedBot.bot_token
    /\ last.events = <<"perform_bot_token_rotation", "async_save_bot", "auth_test">>

NoRefreshCredential(installation) ==
    \/ installation = NoInstallation
    \/ /\ installation.user_refresh_token = NoToken
       /\ installation.bot_refresh_token = NoToken

\* The records the resolver may hand to the rotation.
RotationInputs ==
    {NoInstallation}
    \cup {installations[t][u] : t \in Teams, u \in Installers}
    \cup {RemoveInstallerUserToken(installations[tu[1]][tu[2]]) :
            tu \in {x \in Teams \X Installers :
                      installations[x[1]][x[2]] # NoInstallation}}

\* C16: the rotation of a record that is absent or has neither a user nor
\* a bot refresh token returns none, exchanges nothing, saves nothing,
\* leaves the store as it is and raises nothing, with or without a
\* rotator; a call that finds only such records raises nothing and leaves
\* the installations alone.
C16_NothingToRefreshIsNoOp ==
    /\ \A r \in RotationInputs :
         NoRefreshCredential(r)
         => RotateAndSaveTokensIfNecessary(Env(installations, bots), r)
              = NoRotation(Env(installations, bots))
    /\ (/\ last.installationPath \in {"no", "BoltError"}
        /\ NoRefreshCredential(last.found)
        /\ NoRefreshCredential(last.this_user_installation))
       => /\ last.outcome # "raised"
          /\ last.refreshedThisUser = NoInstallation
          /\ last.refreshedLatest = NoInstallation
          /\ InstallationSaves = {}

\* C16 witness: a resolver without a rotator found an installation without
\* refresh tokens and returned a decision.
C16_Witness ==
    /\ ~token_rotator
    /\ last.found # NoInstallation
    /\ NoRefreshCredential(last.found)
    /\ last.installationPath = "no"
    /\ Returned

\* C17: the adapter returns what the authorize function returned when that
\* is None or an AuthorizeResult, raises ValueError when it is a value of
\* another type, and returns None, raising nothing, when the function
\* raised SlackApiError.
C17_AdapterOutcomes ==
    callable_call.called
    => /\ (/\ callable_call.func_outcome.raised = "no"
           /\ callable_call.func_outcome.type \in {"NoneType", "AuthorizeResult"})
          => callable_call.outcome = callable_call.func_outcome
       /\ (/\ callable_call.func_outcome.raised = "no"
           /\ callable_call.func_outcome.type \notin {"NoneType", "AuthorizeResult"})
          => callable_call.outcome.raised = "ValueError"
       /\ callable_call.func_outcome.raised = "SlackApiError"
          => callable_call.outcome = NoValue

\* C17 witness: a function that declares a parameter the adapter cannot
\* supply was called and returned a value that is no AuthorizeResult.
C17_Witness ==
    /\ callable_call.called
    /\ callable_call.warnings # {}
    /\ callable_call.func_outcome.raised = "no"
    /\ callable_call.func_outcome.type = "dict"
    /\ callable_call.outcome.raised = "ValueError"

\* C18: over every interleaving of consume calls, a state that issue has
\* handed out is accepted at most once, and a state that was never issued
\* is never accepted.
C18_StateAcceptedAtMostOnce ==
    /\ consume_accepted[0] = 0
    /\ \A k \in StateKeys : consume_accepted[k] <= 1

\* The concurrent calls are all over.
AllTasksDone == \A t \in Tasks : tasks[t].pc \in {"idle", "done"}

\* No refresh token has been handed to the authorization server twice.
ExchangedAtMostOnce ==
    \A i, j \in 1..Len(exchange_log) :
        exchange_log[i].credential = exchange_log[j].credential => i = j

\* Once the calls are over the store holds the record of the last exchange.
LastExchangeStored ==
    (AllTasksDone /\ exchange_log # << >>)
    => bots[exchange_log[Len(exchange_log)].refreshed.team_id]
         = exchange_log[Len(exchange_log)].refreshed

\* C20: under every interleaving of concurrent resolve calls no refresh
\* token is exchanged twice, and once the calls are over the store holds
\* the record of the last exchange that was performed.
C20_NoDoubleRefresh ==
    /\ ExchangedAtMostOnce
    /\ LastExchangeStored

\* C19: with the cache enabled, a decision that is returned carries the
\* bot token and the user token that this call has resolved for its own
\* team and user.
C19_DecisionCarriesOwnTokens ==
    (cache_enabled /\ Returned)
    => /\ last.result.bot_token = last.tokens.bot_token
       /\ last.result.user_token = last.tokens.user_token

====
